---- MODULE Spec2Model ----
(***************************************************************************)
(* Production-pipeline orchestration of AI-NOVEL-FACTORY: the Book         *)
(* lifecycle (django-fsm transitions on Book.lifecycle_status), the        *)
(* request handlers that invoke it, and the Chapter lifecycle with the     *)
(* Celery work units that write chapters.                                  *)
(*                                                                         *)
(* A request handler or a work unit reads a row into memory, changes the   *)
(* in-memory object and writes it back with Model.save(); the read and the *)
(* write are separate database operations (no transaction, no row lock),   *)
(* so each handler is a read step followed by a commit step.               *)
(***************************************************************************)
EXTENDS Integers, Sequences, FiniteSets, Bags, TLC

\* ------------------------------------------------------------------------
\* Bounds of the model
\* ------------------------------------------------------------------------
NumCallers == 2
MaxQueue == 1
NumChapters == 1
NumReviewers == 1
NumWorkers == 2
MaxAttempts == 2
NumSweepers == 2
MaxHistory == 2

ChapterIds == 1..NumChapters
Reviewers == 1..NumReviewers
Workers == 1..NumWorkers
Sweepers == 1..NumSweepers

\* ------------------------------------------------------------------------
\* State
\* ------------------------------------------------------------------------
VARIABLES
    book,          \* the persisted Book row (the columns the lifecycle touches)
    req,           \* the requests in progress: a bag of their in-memory Books
    response,      \* the last response returned to a caller
    book_tasks,    \* Celery broker: Book-level work units enqueued by .delay()
    chapters,      \* the persisted Chapter rows of the Book, by chapter id
    creq,          \* per reviewer: the request in progress and its in-memory Chapter
    content_queue, \* Celery broker: write_chapter / rewrite_chapter units
    workers,       \* per Celery worker: the unit it runs and its in-memory Chapter
    now,           \* timezone.now(), in days since the Book was published
    total_reviews, \* book.review_tracker.total_reviews
    strategy,      \* the persisted PricingStrategy row of the Book
    sweeps,        \* per pricing worker: the sweep it runs and what it loaded
    preq,          \* the pricing_strategy_view request in progress
    projection     \* the value the last read-only projection of the Book returned

chapterVars == <<chapters, creq, content_queue, workers>>

pricingVars == <<now, total_reviews, strategy, sweeps, preq>>

vars ==
    <<book, req, response, book_tasks, chapters, creq, content_queue, workers,
      now, total_reviews, strategy, sweeps, preq, projection>>

\* ------------------------------------------------------------------------
\* BookLifecycleStatus (models/book.py)
\* ------------------------------------------------------------------------
CONCEPT_PENDING == "concept_pending"
KEYWORD_RESEARCH == "keyword_research"
KEYWORD_APPROVED == "keyword_approved"
DESCRIPTION_GENERATION == "description_generation"
DESCRIPTION_APPROVED == "description_approved"
BIBLE_GENERATION == "bible_generation"
BIBLE_APPROVED == "bible_approved"
WRITING_IN_PROGRESS == "writing_in_progress"
QA_REVIEW == "qa_review"
EXPORT_READY == "export_ready"
PUBLISHED_KDP == "published_kdp"
PUBLISHED_ALL == "published_all"
ARCHIVED == "archived"

BookLifecycleStatus ==
    { CONCEPT_PENDING, KEYWORD_RESEARCH, KEYWORD_APPROVED,
      DESCRIPTION_GENERATION, DESCRIPTION_APPROVED, BIBLE_GENERATION,
      BIBLE_APPROVED, WRITING_IN_PROGRESS, QA_REVIEW, EXPORT_READY,
      PUBLISHED_KDP, PUBLISHED_ALL, ARCHIVED }

\* The @transition-decorated methods of Book.
LifecycleEvents ==
    { "start_keyword_research", "approve_keywords",
      "start_description_generation", "approve_description",
      "start_bible_generation", "approve_bible", "start_writing",
      "submit_for_qa", "return_to_writing", "approve_for_export",
      "publish_to_kdp", "publish_to_all_platforms", "archive" }

\* TransitionSources with start_writing allowed from BIBLE_APPROVED only
\* (the single-source edge the docstring of the API action describes).
TransitionSources_single(e) ==
    CASE e = "start_keyword_research" -> { CONCEPT_PENDING }
      [] e = "approve_keywords" -> { KEYWORD_RESEARCH }
      [] e = "start_description_generation" -> { KEYWORD_APPROVED }
      [] e = "approve_description" -> { DESCRIPTION_GENERATION }
      [] e = "start_bible_generation" -> { DESCRIPTION_APPROVED }
      [] e = "approve_bible" -> { BIBLE_GENERATION }
      [] e = "start_writing" -> { BIBLE_APPROVED }
      [] e = "submit_for_qa" -> { WRITING_IN_PROGRESS }
      [] e = "return_to_writing" -> { QA_REVIEW }
      [] e = "approve_for_export" -> { QA_REVIEW, WRITING_IN_PROGRESS }
      [] e = "publish_to_kdp" -> { EXPORT_READY }
      [] e = "publish_to_all_platforms" -> { PUBLISHED_KDP }
      [] e = "archive" -> { PUBLISHED_KDP, PUBLISHED_ALL }

\* source= of each @transition
TransitionSources(e) ==
    CASE e = "start_keyword_research" -> { CONCEPT_PENDING }
      [] e = "approve_keywords" -> { KEYWORD_RESEARCH }
      [] e = "start_description_generation" -> { KEYWORD_APPROVED }
      [] e = "approve_description" -> { DESCRIPTION_GENERATION }
      [] e = "start_bible_generation" -> { DESCRIPTION_APPROVED }
      [] e = "approve_bible" -> { BIBLE_GENERATION }
      [] e = "start_writing" ->
             { BIBLE_APPROVED, KEYWORD_APPROVED, BIBLE_GENERATION }
      [] e = "submit_for_qa" -> { WRITING_IN_PROGRESS }
      [] e = "return_to_writing" -> { QA_REVIEW }
      [] e = "approve_for_export" -> { QA_REVIEW, WRITING_IN_PROGRESS }
      [] e = "publish_to_kdp" -> { EXPORT_READY }
      [] e = "publish_to_all_platforms" -> { PUBLISHED_KDP }
      [] e = "archive" -> { PUBLISHED_KDP, PUBLISHED_ALL }

\* target= of each @transition
TransitionTarget(e) ==
    CASE e = "start_keyword_research" -> KEYWORD_RESEARCH
      [] e = "approve_keywords" -> KEYWORD_APPROVED
      [] e = "start_description_generation" -> DESCRIPTION_GENERATION
      [] e = "approve_description" -> DESCRIPTION_APPROVED
      [] e = "start_bible_generation" -> BIBLE_GENERATION
      [] e = "approve_bible" -> BIBLE_APPROVED
      [] e = "start_writing" -> WRITING_IN_PROGRESS
      [] e = "submit_for_qa" -> QA_REVIEW
      [] e = "return_to_writing" -> WRITING_IN_PROGRESS
      [] e = "approve_for_export" -> EXPORT_READY
      [] e = "publish_to_kdp" -> PUBLISHED_KDP
      [] e = "publish_to_all_platforms" -> PUBLISHED_ALL
      [] e = "archive" -> ARCHIVED

\* TransitionBody with approve_for_export's body left empty (pass).
TransitionBody_pass(b, e) ==
    CASE e = "publish_to_kdp" -> [b EXCEPT !.published_at = TRUE]
      [] OTHER -> b

\* The body of each @transition method, run on the in-memory Book before
\* django-fsm assigns the target state.
TransitionBody(b, e) ==
    CASE e = "approve_for_export" -> [b EXCEPT !.kdp_preflight_passed = TRUE]
      [] e = "publish_to_kdp" -> [b EXCEPT !.published_at = TRUE]
      [] OTHER -> b

\* django-fsm's check on the in-memory object: has_transition_perm/state in source
can_proceed(b, e) == b.lifecycle_status \in TransitionSources(e)

\* A successful call of a @transition method on the in-memory Book b.
transition(b, e) ==
    [TransitionBody(b, e) EXCEPT !.lifecycle_status = TransitionTarget(e)]

\* ------------------------------------------------------------------------
\* ChapterStatus and the Chapter model (models/story.py)
\* ------------------------------------------------------------------------
PENDING == "pending"
READY_TO_WRITE == "ready_to_write"
PENDING_WRITE == READY_TO_WRITE
WRITING == "writing"
WRITTEN == "written"
PENDING_QA == "pending_qa"
APPROVED == "approved"
REJECTED == "rejected"
PUBLISHED == "published"

ChapterStatus ==
    { PENDING, READY_TO_WRITE, WRITING, WRITTEN, PENDING_QA, APPROVED,
      REJECTED, PUBLISHED }

\* Chapter.content is a string; a character is a word character "w" or a
\* blank " ".
RECURSIVE split_count(_, _)
\* len(content.split()): the number of maximal runs of non-blank characters;
\* inWord tells whether the previous character was a word character.
split_count(content, inWord) ==
    IF content = << >> THEN 0
    ELSE IF Head(content) = " " THEN split_count(Tail(content), FALSE)
    ELSE (IF inWord THEN 0 ELSE 1) + split_count(Tail(content), TRUE)

\* Chapter.save(), the part before super().save(): word_count is recomputed
\* only when content is non-empty.
Chapter_save(ch) ==
    IF ch.content # << >>
      THEN [ch EXCEPT !.word_count = split_count(ch.content, FALSE),
                      !.updated_at = now]
      ELSE [ch EXCEPT !.updated_at = now]

\* A Chapter row as created: the field defaults.
NewChapter ==
    [ status |-> PENDING,
      content |-> << >>,
      word_count |-> 0,
      qa_notes |-> "",
      qa_reviewed_at |-> FALSE,
      generation_model |-> "",
      generation_attempts |-> 0,
      is_deleted |-> FALSE,
      updated_at |-> 0 ]

\* Chapter.mark_ready_to_write on the in-memory object.
mark_ready_to_write(ch) == [ch EXCEPT !.status = READY_TO_WRITE]

\* Chapter.mark_written on the in-memory object, up to self.save().
mark_written(ch, content, model) ==
    [ch EXCEPT !.content = content,
               !.status = PENDING_QA,
               !.generation_model = model,
               !.generation_attempts = @ + 1]

\* Chapter.approve on the in-memory object.
approve(ch) == [ch EXCEPT !.status = APPROVED, !.qa_reviewed_at = TRUE]

\* Chapter.reject on the in-memory object.
reject(ch, notes) ==
    [ch EXCEPT !.status = REJECTED, !.qa_notes = notes, !.qa_reviewed_at = TRUE]

\* Model.save(update_fields=fields): only the named columns of the in-memory
\* object mem are written to the row.
save_fields(row, mem, fields) ==
    [f \in DOMAIN row |->
        IF f \notin fields THEN row[f]
        ELSE IF f = "updated_at" THEN now ELSE mem[f]]

\* ------------------------------------------------------------------------
\* PricingPhase and PricingStrategy (models/marketing.py)
\* ------------------------------------------------------------------------
LAUNCH == "launch"
GROWTH == "growth"
MATURE == "mature"
PROMO == "promo"
BUNDLE == "bundle"

PricingPhase == { LAUNCH, GROWTH, MATURE, PROMO, BUNDLE }

\* PromotionType.KINDLE_COUNTDOWN
KINDLE_COUNTDOWN == "kindle_countdown"

\* A null DateField; a date d is <<d>>, d in days since the Book was published.
NoDate == << >>

\* The field defaults of PricingStrategy; prices are in cents.
NewStrategy ==
    [ current_phase |-> LAUNCH,
      current_price_usd |-> 99,
      reviews_threshold_for_growth |-> 20,
      days_in_launch_phase |-> 7,
      is_kdp_select |-> TRUE,
      next_promotion_date |-> NoDate,
      next_promotion_type |-> "",
      last_promotion_date |-> NoDate,
      days_between_promotions |-> 90,
      auto_price_enabled |-> TRUE,
      price_history |-> << >> ]

\* float(new_price) of a Decimal with two places, as JSON stores it: the
\* shortest decimal that reads back as the same double is the price itself.
float(price) == price

\* a log that keeps the latest change only
log_price_change_latest(st, new_price, new_phase, reason) ==
    [st EXCEPT !.price_history =
        << [date |-> now, price |-> float(new_price),
            phase |-> new_phase, reason |-> reason] >>]

\* PricingStrategy.log_price_change on the in-memory strategy: one entry is
\* appended to price_history (which the method then saves).
log_price_change(st, new_price, new_phase, reason) ==
    [st EXCEPT !.price_history =
        Append(@, [date |-> now, price |-> float(new_price),
                   phase |-> new_phase, reason |-> reason])]

\* <<ai_detection_score, plagiarism_score>> of the rows the model starts
\* from (percentages): both below the thresholds, AI score too high,
\* plagiarism score too high.
BookScores == { <<10, 1>>, <<25, 1>>, <<10, 5>> }

Idle == [pc |-> "idle"]

\* No response yet.
NoResponse == "none"

\* Book row as created (lifecycle_status default, kdp_preflight_passed
\* default, published_at null); the two quality scores are whatever the row
\* was created with.
NewBook(ai, plag) ==
    [ lifecycle_status |-> CONCEPT_PENDING,
      kdp_preflight_passed |-> FALSE,
      published_at |-> FALSE,
      ai_detection_score |-> ai,
      plagiarism_score |-> plag,
      is_deleted |-> FALSE,
      target_chapter_count |-> 80,
      current_word_count |-> 0 ]

\* The Book's chapters exist (created with the field defaults), no request
\* and no work unit is in progress.
\* No pricing activity: the strategy as created, nothing in progress.
InitPricingIdle ==
    /\ projection = 0
    /\ now = 0
    /\ total_reviews = 0
    /\ strategy = NewStrategy
    /\ sweeps = [s \in Sweepers |-> Idle]
    /\ preq = Idle

InitChapters ==
    /\ chapters = [i \in ChapterIds |-> NewChapter]
    /\ creq = [r \in Reviewers |-> Idle]
    /\ content_queue = << >>
    /\ workers = [w \in Workers |-> Idle]

\* A Book whose stored scores pass the thresholds.
Init ==
    /\ book = NewBook(10, 1)
    /\ req = EmptyBag
    /\ response = NoResponse
    /\ book_tasks = << >>
    /\ InitChapters
    /\ InitPricingIdle

\* A Book with any of the stored scores.
InitGate ==
    /\ \E sc \in BookScores : book = NewBook(sc[1], sc[2])
    /\ req = EmptyBag
    /\ response = NoResponse
    /\ book_tasks = << >>
    /\ InitChapters
    /\ InitPricingIdle

\* ------------------------------------------------------------------------
\* Request handlers on Book
\* ------------------------------------------------------------------------

\* book = self.get_object() / get_object_or_404(Book, pk=book_id):
\* the handler reads the row into memory.
get_object ==
    /\ BagCardinality(req) < NumCallers
    /\ req' = req (+) SetToBag({ book })
    /\ UNCHANGED <<book, response, book_tasks, chapterVars, pricingVars, projection>>

\* Response({'status': 'success', ...}) of a handler that ran through,
\* Response({'error': ...}, status=400) of one that caught an exception or
\* refused the request; the admin views answer with a success or an error
\* message.
Respond(ok) == response' = IF ok THEN "success" ELSE "error"

\* task.delay(book.id): the unit is appended to the broker queue.
delay(task) == book_tasks' = Append(book_tasks, task)

\* The work unit each lifecycle action enqueues after book.save(), "" when it
\* enqueues none.
EventTask(e) ==
    CASE e = "start_keyword_research" -> "run_keyword_research"
      [] e = "start_description_generation" -> "generate_book_description"
      [] e = "start_bible_generation" -> "generate_story_bible"
      [] OTHER -> ""

\* a lifecycle action that enqueues its unit before it tries the transition
LifecycleAction_enqueue_first(b, e) ==
    /\ BagIn(b, req)
    /\ LET task == EventTask(e) IN
       /\ IF task = ""
            THEN UNCHANGED book_tasks
            ELSE /\ Len(book_tasks) < MaxQueue
                 /\ delay(task)
       /\ IF can_proceed(b, e)
            THEN /\ book' = transition(b, e)
                 /\ Respond(TRUE)
            ELSE /\ UNCHANGED book
                 /\ Respond(FALSE)
    /\ req' = req (-) SetToBag({ b })
    /\ UNCHANGED <<chapterVars, pricingVars, projection>>

\* The body shared by the lifecycle actions of BookViewSet:
\*     book = self.get_object()
\*     try: book.<event>(); book.save(); [<task>.delay(book.id)]; 200
\*     except Exception as e: 400
\* brokerUp = FALSE is an exception raised by .delay() (broker
\* unreachable), caught by the except.
LifecycleAction(b, e) ==
    /\ BagIn(b, req)
    /\ LET task == EventTask(e) IN
       IF can_proceed(b, e)
         THEN /\ book' = transition(b, e)
              /\ IF task = ""
                   THEN /\ UNCHANGED book_tasks
                        /\ Respond(TRUE)
                   ELSE \E brokerUp \in BOOLEAN :
                          IF brokerUp
                            THEN /\ Len(book_tasks) < MaxQueue
                                 /\ delay(task)
                                 /\ Respond(TRUE)
                            ELSE /\ UNCHANGED book_tasks
                                 /\ Respond(FALSE)
         ELSE /\ UNCHANGED <<book, book_tasks>>
              /\ Respond(FALSE)
    /\ req' = req (-) SetToBag({ b })
    /\ UNCHANGED <<chapterVars, pricingVars, projection>>

BookViewSet_start_keyword_research(b) ==
    LifecycleAction(b, "start_keyword_research")

BookViewSet_approve_keywords(b) ==
    LifecycleAction(b, "approve_keywords")

BookViewSet_start_description_generation(b) ==
    LifecycleAction(b, "start_description_generation")

BookViewSet_approve_description(b) ==
    LifecycleAction(b, "approve_description")

BookViewSet_start_bible_generation(b) ==
    LifecycleAction(b, "start_bible_generation")

BookViewSet_approve_bible(b) ==
    LifecycleAction(b, "approve_bible")

BookViewSet_start_writing(b) ==
    LifecycleAction(b, "start_writing")

BookViewSet_submit_for_qa(b) ==
    LifecycleAction(b, "submit_for_qa")

BookViewSet_approve_for_export(b) ==
    LifecycleAction(b, "approve_for_export")

BookViewSet_publish_to_kdp(b) ==
    LifecycleAction(b, "publish_to_kdp")

\* The three transitions no view calls: invoked on the model by a caller
\* that holds a Book object (book.<event>(); book.save()).
Book_return_to_writing(b) ==
    LifecycleAction(b, "return_to_writing")

Book_publish_to_all_platforms(b) ==
    LifecycleAction(b, "publish_to_all_platforms")

Book_archive(b) ==
    LifecycleAction(b, "archive")

\* ------------------------------------------------------------------------
\* Admin views on Book (admin_views.py)
\* ------------------------------------------------------------------------

\* keyword_research_view, POST with action=approve: the view tests the
\* in-memory state itself and only then calls approve_keywords(); the
\* .delay() of generate_kdp_metadata is wrapped in try/except: pass.
keyword_research_view(b) ==
    /\ BagIn(b, req)
    /\ IF b.lifecycle_status = KEYWORD_RESEARCH
         THEN /\ book' = transition(b, "approve_keywords")
              /\ \E brokerUp \in BOOLEAN :
                   IF brokerUp
                     THEN /\ Len(book_tasks) < MaxQueue
                          /\ delay("generate_kdp_metadata")
                     ELSE UNCHANGED book_tasks
              /\ Respond(TRUE)
         ELSE /\ UNCHANGED <<book, book_tasks>>
              /\ Respond(FALSE)
    /\ req' = req (-) SetToBag({ b })
    /\ UNCHANGED <<chapterVars, pricingVars, projection>>

\* concept_selection_view, POST: the chosen concept is copied to the
\* in-memory Book and book.save() writes every column of it; then the
\* transition, guarded by the in-memory state, and a second book.save().
concept_selection_view(b) ==
    /\ BagIn(b, req)
    /\ IF b.lifecycle_status = CONCEPT_PENDING
         THEN /\ book' = transition(b, "start_keyword_research")
              /\ \E brokerUp \in BOOLEAN :
                   IF brokerUp
                     THEN /\ Len(book_tasks) < MaxQueue
                          /\ delay("run_keyword_research")
                          /\ Respond(TRUE)
                     ELSE /\ UNCHANGED book_tasks
                          /\ Respond(FALSE)
         ELSE /\ book' = b
              /\ UNCHANGED book_tasks
              /\ Respond(TRUE)
    /\ req' = req (-) SetToBag({ b })
    /\ UNCHANGED <<chapterVars, pricingVars, projection>>

\* story_bible_view, POST with form_action=approve (the StoryBible row it
\* saves first is not part of the Book row).
story_bible_view(b) ==
    /\ BagIn(b, req)
    /\ IF b.lifecycle_status \in { BIBLE_GENERATION, KEYWORD_APPROVED }
         THEN book' = transition(b, "start_writing")
         ELSE UNCHANGED book
    /\ Respond(TRUE)
    /\ req' = req (-) SetToBag({ b })
    /\ UNCHANGED <<chapterVars, pricingVars, projection>>
    /\ UNCHANGED book_tasks

\* KDPPreFlightForm: the checklist BooleanFields are all required=True
\* (checklist is their conjunction); the two scores are typed into the form
\* and clean() rejects ai >= 20 and plagiarism >= 3.
FormScores == { 10, 20 }

KDPPreFlightForm_is_valid(form) ==
    /\ form.checklist
    /\ ~ (form.originality_ai_score >= 20)
    /\ ~ (form.plagiarism_score >= 3)

KDPPreFlightForms ==
    [ checklist : BOOLEAN,
      originality_ai_score : FormScores,
      plagiarism_score : { 1, 3 } ]

\* kdp_preflight_view, POST.
kdp_preflight_view(b, form) ==
    /\ BagIn(b, req)
    /\ IF KDPPreFlightForm_is_valid(form)
         THEN /\ IF b.lifecycle_status \in { QA_REVIEW, WRITING_IN_PROGRESS }
                   THEN book' = transition(b, "approve_for_export")
                   ELSE UNCHANGED book
              /\ Respond(TRUE)
         ELSE /\ UNCHANGED book
              /\ Respond(FALSE)
    /\ req' = req (-) SetToBag({ b })
    /\ UNCHANGED <<chapterVars, pricingVars, projection>>
    /\ UNCHANGED book_tasks

\* ------------------------------------------------------------------------
\* PUT/PATCH /books/<id>/ (ModelViewSet.update with BookDetailSerializer)
\* ------------------------------------------------------------------------

\* The serializer's writable fields that belong to the lifecycle:
\* lifecycle_status (a ChoiceField over the 13 choices) and
\* kdp_preflight_passed are listed in fields and not in read_only_fields.
\* A field the request leaves out keeps its in-memory value (choose it
\* equal).  serializer.save() is instance.save(): every column is written.
BookDetailSerializer_update(b, status, preflight) ==
    [b EXCEPT !.lifecycle_status = status, !.kdp_preflight_passed = preflight]

BookViewSet_update(b, status, preflight) ==
    /\ BagIn(b, req)
    /\ book' = BookDetailSerializer_update(b, status, preflight)
    /\ Respond(TRUE)
    /\ req' = req (-) SetToBag({ b })
    /\ UNCHANGED <<chapterVars, pricingVars, projection>>
    /\ UNCHANGED book_tasks

\* ------------------------------------------------------------------------
\* Celery worker, Book-level work units
\* ------------------------------------------------------------------------

\* run_keyword_research, generate_kdp_metadata, generate_book_description,
\* generate_story_bible: each reads the Book and writes only its own rows
\* (KeywordResearch, BookDescription, StoryBible).
run_book_task ==
    /\ book_tasks # << >>
    /\ book_tasks' = Tail(book_tasks)
    /\ UNCHANGED <<book, req, response, chapterVars, pricingVars, projection>>

\* generate_concepts_view, POST: generate_book_concepts.delay(book_id); an
\* exception of .delay() is answered with status 'error'.
generate_concepts_view(b) ==
    /\ BagIn(b, req)
    /\ \E brokerUp \in BOOLEAN :
         IF brokerUp
           THEN /\ Len(book_tasks) < MaxQueue
                /\ delay("generate_book_concepts")
                /\ Respond(TRUE)
           ELSE /\ UNCHANGED book_tasks
                /\ Respond(FALSE)
    /\ req' = req (-) SetToBag({ b })
    /\ UNCHANGED <<book, chapterVars, pricingVars, projection>>

\* a unit that saves the whole Book row it read
TaskUpdateFields_all(task) == DOMAIN book

\* The columns of the Book row a Book-level unit writes when it ends:
\* generate_book_concepts saves update_fields=['book_concepts',
\* 'updated_at']; run_keyword_research, generate_book_description and
\* generate_story_bible save rows of KeywordResearch, BookDescription and
\* StoryBible only.
TaskUpdateFields(task) ==
    IF task = "generate_book_concepts"
      THEN { "book_concepts", "updated_at" }
      ELSE { }

\* A Book-level unit, first half: Book.objects.get(pk=book_id) reads the row
\* into the worker's memory; then the provider is called.
book_task_start(w) ==
    /\ workers[w].pc = "idle"
    /\ book_tasks # << >>
    /\ workers' = [workers EXCEPT
                     ![w] = [pc |-> "running", task |-> Head(book_tasks),
                             book |-> book]]
    /\ book_tasks' = Tail(book_tasks)
    /\ UNCHANGED <<book, req, response, chapters, creq, content_queue,
                   pricingVars, projection>>

\* A Book-level unit, second half: the provider has answered and the unit
\* writes its result.
book_task_finish(w) ==
    /\ workers[w].pc = "running"
    /\ book' = save_fields(book, workers[w].book, TaskUpdateFields(workers[w].task))
    /\ workers' = [workers EXCEPT ![w] = Idle]
    /\ UNCHANGED <<req, response, book_tasks, chapters, creq, content_queue,
                   pricingVars, projection>>

\* ------------------------------------------------------------------------
\* Request handlers on Chapter (api/views.py, admin_views.py)
\* ------------------------------------------------------------------------

\* ChapterViewSet.approve: get_object(); chapter.approve(), which saves
\* update_fields=['status', 'qa_reviewed_at', 'updated_at'].
ChapterViewSet_approve(i) ==
    /\ chapters' = [chapters EXCEPT
                      ![i] = save_fields(@, approve(@),
                                        {"status", "qa_reviewed_at", "updated_at"})]
    /\ Respond(TRUE)
    /\ UNCHANGED <<pricingVars, projection, book, req, book_tasks, creq, content_queue, workers>>

Notes == { "", "tighten the pacing" }

\* A rewrite_chapter work unit.
RewriteUnit(i, feedback) ==
    [task |-> "rewrite_chapter", chapter_id |-> i, feedback |-> feedback,
     retries |-> 0, countdown |-> 0]

\* A write_chapter work unit.
WriteUnit(i) ==
    [task |-> "write_chapter", chapter_id |-> i, feedback |-> "",
     retries |-> 0, countdown |-> 0]

\* ChapterViewSet.reject: notes are required; chapter.reject(notes) saves
\* update_fields=['status', 'qa_notes', 'qa_reviewed_at', 'updated_at'];
\* then rewrite_chapter.delay(chapter.id, notes).
ChapterViewSet_reject(i, notes) ==
    /\ IF notes = ""
         THEN /\ Respond(FALSE)
              /\ UNCHANGED <<chapters, content_queue>>
         ELSE /\ Len(content_queue) < MaxQueue
              /\ chapters' = [chapters EXCEPT
                                ![i] = save_fields(@, reject(@, notes),
                                           {"status", "qa_notes",
                                            "qa_reviewed_at", "updated_at"})]
              /\ content_queue' = Append(content_queue, RewriteUnit(i, notes))
              /\ Respond(TRUE)
    /\ UNCHANGED <<pricingVars, projection, book, req, book_tasks, creq, workers>>

\* ChapterViewSet.mark_ready_to_write: chapter.mark_ready_to_write() saves
\* update_fields=['status', 'updated_at'].
\* an endpoint that refuses a chapter already made ready
ChapterViewSet_mark_ready_to_write_strict(i) ==
    /\ IF chapters[i].status = READY_TO_WRITE
         THEN /\ Respond(FALSE)
              /\ UNCHANGED chapters
         ELSE /\ chapters' = [chapters EXCEPT
                                ![i] = save_fields(@, mark_ready_to_write(@),
                                                   {"status", "updated_at"})]
              /\ Respond(TRUE)
    /\ UNCHANGED <<pricingVars, projection, book, req, book_tasks, creq, content_queue, workers>>

ChapterViewSet_mark_ready_to_write(i) ==
    /\ chapters' = [chapters EXCEPT
                      ![i] = save_fields(@, mark_ready_to_write(@),
                                        {"status", "updated_at"})]
    /\ Respond(TRUE)
    /\ UNCHANGED <<pricingVars, projection, book, req, book_tasks, creq, content_queue, workers>>

\* chapter = self.get_object() / get_object_or_404(Chapter, pk=chapter_id)
\* of the handlers that save the whole row.
chapter_get_object(r, i) ==
    /\ creq[r].pc = "idle"
    /\ creq' = [creq EXCEPT ![r] = [pc |-> "loaded", id |-> i, chapter |-> chapters[i]]]
    /\ UNCHANGED <<pricingVars, projection, book, req, response, book_tasks, chapters, content_queue, workers>>

\* What the provider returns as result['content'].
Contents == { <<"w", " ", "w">> }

\* The content a request body can carry: blank, or a text.
PatchContents == { << >> } \cup Contents

\* ChapterDetailSerializer: status (a ChoiceField over the 8 choices),
\* qa_notes and content are writable; a field the request leaves out keeps
\* its in-memory value.
ChapterDetailSerializer_update(ch, status, notes, content) ==
    [ch EXCEPT !.status = status, !.qa_notes = notes, !.content = content]

\* PUT/PATCH /chapters/<id>/ (ModelViewSet.update): serializer.save() is
\* instance.save(), every column is written.
ChapterViewSet_update(r, status, notes, content) ==
    /\ creq[r].pc = "loaded"
    /\ LET ch == Chapter_save(
                   ChapterDetailSerializer_update(creq[r].chapter, status, notes, content))
       IN /\ chapters' = [chapters EXCEPT ![creq[r].id] = ch]
          /\ Respond(TRUE)
    /\ creq' = [creq EXCEPT ![r] = Idle]
    /\ UNCHANGED <<pricingVars, projection, book, req, book_tasks, content_queue, workers>>

\* QAReviewForm: decision, feedback (required=False) and the optional
\* originality_6_point_score (a sequence of at most one number).
QAReviewForms ==
    [ decision : { "approve", "reject" },
      feedback : Notes,
      originality_6_point_score : { << >>, <<4>>, <<5>> } ]

\* QAReviewForm.clean
QAReviewForm_is_valid(form) ==
    /\ ~ (form.decision = "reject" /\ form.feedback = "")
    /\ ~ ( /\ form.decision = "approve"
           /\ form.originality_6_point_score # << >>
           /\ form.originality_6_point_score[1] < 5 )

\* qa_review_view, POST with a chapter_id: approve assigns the status and
\* saves the whole row; reject assigns PENDING_WRITE and the feedback, saves
\* the whole row and queues the rewrite (an exception of .delay() is caught).
qa_review_view(r, form) ==
    /\ creq[r].pc = "loaded"
    /\ LET i == creq[r].id
           ch == creq[r].chapter IN
       IF ~ QAReviewForm_is_valid(form)
         THEN /\ Respond(FALSE)
              /\ UNCHANGED <<chapters, content_queue>>
         ELSE IF form.decision = "approve"
           THEN /\ chapters' = [chapters EXCEPT
                                  ![i] = Chapter_save([ch EXCEPT !.status = APPROVED])]
                /\ Respond(TRUE)
                /\ UNCHANGED content_queue
           ELSE /\ chapters' = [chapters EXCEPT
                                  ![i] = Chapter_save([ch EXCEPT !.status = PENDING_WRITE,
                                                                 !.qa_notes = form.feedback])]
                /\ \E brokerUp \in BOOLEAN :
                     IF brokerUp
                       THEN /\ Len(content_queue) < MaxQueue
                            /\ content_queue' =
                                 Append(content_queue, RewriteUnit(i, form.feedback))
                            /\ Respond(TRUE)
                       ELSE /\ UNCHANGED content_queue
                            /\ Respond(FALSE)
    /\ creq' = [creq EXCEPT ![r] = Idle]
    /\ UNCHANGED <<pricingVars, projection, book, req, book_tasks, workers>>

\* ------------------------------------------------------------------------
\* Celery tasks on Chapter (tasks/content.py)
\* ------------------------------------------------------------------------

\* [:5] of run_daily_content_generation
DailyCap == 5

\* @shared_task(bind=True, max_retries=3) of write_chapter
max_retries == 3

\* self.retry(exc=e, countdown=60): the delay in seconds before a retry
retry_countdown == 60

RECURSIVE order_by(_)
\* .order_by('chapter_number'): the ids of a set in ascending order.
order_by(ids) ==
    IF ids = {} THEN << >>
    ELSE LET m == CHOOSE x \in ids : \A y \in ids : x <= y
         IN <<m>> \o order_by(ids \ {m})

\* a slice that takes everything
first_all(seq, n) == seq

\* the slice [:n] of a queryset
first(seq, n) == SubSeq(seq, 1, IF Len(seq) < n THEN Len(seq) ELSE n)

\* A sweep with nothing limiting it: the queue holds two full selections.
SweepQueue == 2 * DailyCap

\* Chapter.objects.filter(book=book, status=READY_TO_WRITE, is_deleted=False)
\*     .order_by('chapter_number')[:5]: the chapters one sweep selects.
ready_chapters ==
    first(order_by({ i \in DOMAIN chapters :
                           /\ chapters[i].status = READY_TO_WRITE
                           /\ ~chapters[i].is_deleted }),
              DailyCap)

\* Book.objects.filter(lifecycle_status=WRITING_IN_PROGRESS, is_deleted=False)
writing_books ==
    book.lifecycle_status = WRITING_IN_PROGRESS /\ ~book.is_deleted

\* The body of run_daily_content_generation with a broker that accepts
\* units while the queue holds fewer than capacity: for the Book, if the
\* filter keeps it, one write_chapter.delay(chapter.id) per selected chapter.
dispatch(capacity) ==
    /\ LET selected == IF writing_books THEN ready_chapters ELSE << >>
       IN /\ Len(content_queue) + Len(selected) <= capacity
          /\ content_queue' =
               content_queue \o [k \in 1..Len(selected) |-> WriteUnit(selected[k])]
    /\ UNCHANGED <<pricingVars, projection, book, req, response, book_tasks, chapters, creq, workers>>

run_daily_content_generation == dispatch(MaxQueue)

\* The sweep of the scheduler against a queue of SweepQueue places.
beat_run_daily_content_generation == dispatch(SweepQueue)

\* The first half of write_chapter and of rewrite_chapter: the worker takes
\* the unit, reads the chapter, assigns status = WRITING and saves
\* update_fields=['status', 'updated_at'].
claim(w, task) ==
    /\ workers[w].pc = "idle"
    /\ content_queue # << >>
    /\ Head(content_queue).task = task
    /\ LET unit == Head(content_queue)
           i == unit.chapter_id
           ch == [chapters[i] EXCEPT !.status = WRITING, !.updated_at = now] IN
       /\ chapters' = [chapters EXCEPT
                         ![i] = save_fields(@, ch, {"status", "updated_at"})]
       /\ workers' = [workers EXCEPT
                        ![w] = [pc |-> "generating", unit |-> unit, chapter |-> ch]]
    /\ content_queue' = Tail(content_queue)
    /\ UNCHANGED <<pricingVars, projection, book, req, response, book_tasks, creq>>

\* a completion that also recomputes the Book's total
written_with_resync(w, task, content) ==
    /\ workers[w].pc = "generating"
    /\ workers[w].unit.task = task
    /\ workers[w].chapter.generation_attempts < MaxAttempts
    /\ LET i == workers[w].unit.chapter_id
           ch == Chapter_save(mark_written(workers[w].chapter, content, "llm"))
       IN /\ chapters' = [chapters EXCEPT ![i] = ch]
          /\ book' = [book EXCEPT !.current_word_count = @ + ch.word_count]
    /\ workers' = [workers EXCEPT ![w] = Idle]
    /\ UNCHANGED <<pricingVars, projection, req, response, book_tasks, creq, content_queue>>

\* The second half when the provider returns: chapter.mark_written(...) on
\* the in-memory chapter, whose self.save() writes every column.
written(w, task, content) ==
    /\ workers[w].pc = "generating"
    /\ workers[w].unit.task = task
    /\ workers[w].chapter.generation_attempts < MaxAttempts
    /\ LET i == workers[w].unit.chapter_id
           ch == Chapter_save(mark_written(workers[w].chapter, content, "llm"))
       IN chapters' = [chapters EXCEPT ![i] = ch]
    /\ workers' = [workers EXCEPT ![w] = Idle]
    /\ UNCHANGED <<pricingVars, projection, book, req, response, book_tasks, creq, content_queue>>

write_chapter_claim(w) == claim(w, "write_chapter")

write_chapter_written(w, content) == written(w, "write_chapter", content)

\* a retry that never gives up
write_chapter_failed_always(w) ==
    /\ workers[w].pc = "generating"
    /\ workers[w].unit.task = "write_chapter"
    /\ LET unit == workers[w].unit IN
          /\ Len(content_queue) < MaxQueue
          /\ content_queue' =
               Append(content_queue, [unit EXCEPT !.retries = @ + 1,
                                                  !.countdown = retry_countdown])
    /\ workers' = [workers EXCEPT ![w] = Idle]
    /\ UNCHANGED <<pricingVars, projection, book, req, response, book_tasks, chapters, creq>>

\* write_chapter when the provider raises: self.retry(exc=e, countdown=60)
\* re-queues the unit until max_retries is used up, then the exception ends
\* the unit.  The chapter row is not touched.
write_chapter_failed(w) ==
    /\ workers[w].pc = "generating"
    /\ workers[w].unit.task = "write_chapter"
    /\ LET unit == workers[w].unit IN
       IF unit.retries < max_retries
         THEN /\ Len(content_queue) < MaxQueue
              /\ content_queue' =
                   Append(content_queue, [unit EXCEPT !.retries = @ + 1,
                                                      !.countdown = retry_countdown])
         ELSE UNCHANGED content_queue
    /\ workers' = [workers EXCEPT ![w] = Idle]
    /\ UNCHANGED <<pricingVars, projection, book, req, response, book_tasks, chapters, creq>>

rewrite_chapter_claim(w) == claim(w, "rewrite_chapter")

rewrite_chapter_written(w, content) == written(w, "rewrite_chapter", content)

\* rewrite_chapter when the provider raises: the exception is logged and
\* re-raised (the task is not bound, there is no retry).
rewrite_chapter_failed(w) ==
    /\ workers[w].pc = "generating"
    /\ workers[w].unit.task = "rewrite_chapter"
    /\ workers' = [workers EXCEPT ![w] = Idle]
    /\ UNCHANGED <<pricingVars, projection, book, req, response, book_tasks, chapters, creq, content_queue>>

\* ------------------------------------------------------------------------
\* Progress projections of Book (models/book.py)
\* ------------------------------------------------------------------------

\* round(100 * num / den, 1) in tenths of a percent: the nearest tenth, a tie
\* going to the even one.
round_tenths(num, den) ==
    LET q == (num * 1000) \div den
        r == (num * 1000) % den
    IN IF 2 * r > den \/ (2 * r = den /\ q % 2 = 1) THEN q + 1 ELSE q

\* Book.get_chapter_completion_percentage, in tenths of a percent: 0 for a
\* target of 0, else the chapters with status 'approved' over the target.
get_chapter_completion_percentage(b, chs) ==
    IF b.target_chapter_count = 0 THEN 0
    ELSE round_tenths(Cardinality({ i \in DOMAIN chs : chs[i].status = APPROVED }),
                      b.target_chapter_count)

\* None, the result of an aggregate over no rows; a value v is <<v>>.
None == << >>

RECURSIVE sum_word_count(_, _)
\* the total of word_count over the rows ids
sum_word_count(chs, ids) ==
    IF ids = {} THEN 0
    ELSE LET i == CHOOSE x \in ids : TRUE
         IN chs[i].word_count + sum_word_count(chs, ids \ {i})

\* .aggregate(total=Sum('word_count'))['total']: None over no rows
aggregate_Sum(chs, ids) ==
    IF ids = {} THEN None ELSE <<sum_word_count(chs, ids)>>

\* a total that counts the soft-deleted chapters too
update_word_count_all(b, chs) ==
    LET total == aggregate_Sum(chs, DOMAIN chs)
    IN [b EXCEPT !.current_word_count = IF total = None THEN 0 ELSE total[1]]

\* Book.update_word_count on the in-memory Book: the total over the chapters
\* with is_deleted=False, 0 for None.
update_word_count(b, chs) ==
    LET total == aggregate_Sum(chs, { i \in DOMAIN chs : ~chs[i].is_deleted })
    IN [b EXCEPT !.current_word_count = IF total = None THEN 0 ELSE total[1]]

\* BookDetailSerializer.get_chapter_completion: the value is returned to the
\* caller in the representation of the Book.
BookDetailSerializer_get_chapter_completion ==
    /\ projection' = get_chapter_completion_percentage(book, chapters)
    /\ Respond(TRUE)
    /\ UNCHANGED <<book, req, book_tasks, chapterVars, pricingVars>>

\* book.update_word_count(): the total is assigned and saved with
\* update_fields=['current_word_count', 'updated_at'].
Book_update_word_count ==
    /\ book' = save_fields(book, update_word_count(book, chapters),
                           {"current_word_count"})
    /\ UNCHANGED <<req, response, book_tasks, chapterVars, pricingVars, projection>>

\* ------------------------------------------------------------------------
\* Time
\* ------------------------------------------------------------------------

\* The days on which something is observed, counted from the publication.
Days == { 0, 6, 7, 29, 30 }

\* Time passes: timezone.now() moves to a later day.
tick ==
    /\ \E d \in Days : d > now /\ now' = d
    /\ UNCHANGED <<projection, book, req, response, book_tasks, chapterVars,
                   total_reviews, strategy, sweeps, preq>>

\* ------------------------------------------------------------------------
\* Pricing tasks (tasks/pricing.py) and the pricing view (admin_views.py)
\* ------------------------------------------------------------------------

\* The review totals the tracker reports.
ReviewCounts == { 19, 20, 50 }

\* The review tracker of the Book is refreshed.
review_tracker_update ==
    /\ \E r \in ReviewCounts : r # total_reviews /\ total_reviews' = r
    /\ UNCHANGED <<projection, book, req, response, book_tasks, chapterVars,
                   now, strategy, sweeps, preq>>

\* a filter that keeps every strategy of a Book that is not soft-deleted
auto_price_strategies_all ==
    ~book.is_deleted

\* The filter of auto_transition_pricing: auto_price_enabled=True, the Book
\* in PUBLISHED_KDP or PUBLISHED_ALL and not soft-deleted.
auto_price_strategies ==
    /\ strategy.auto_price_enabled
    /\ book.lifecycle_status \in { PUBLISHED_KDP, PUBLISHED_ALL }
    /\ ~book.is_deleted

\* (timezone.now() - book.published_at).days if book.published_at else 0
days_since_publish(b) == IF b.published_at THEN now ELSE 0

\* the conditions of the launch phase applied without looking at the phase
check_transition_any_phase(st, days, review_count) ==
    IF /\ days >= st.days_in_launch_phase
       /\ review_count >= st.reviews_threshold_for_growth
       /\ st.current_phase # GROWTH
      THEN [phase |-> GROWTH, price |-> 299, reason |-> "Launch phase complete"]
    ELSE IF st.current_phase = GROWTH /\ days >= 30 /\ review_count >= 50
      THEN [phase |-> MATURE, price |-> 399, reason |-> "Growth complete"]
    ELSE [phase |-> st.current_phase, price |-> st.current_price_usd,
          reason |-> ""]

\* thresholds that must be exceeded, not reached
check_transition_exceeded(st, days, review_count) ==
    IF /\ st.current_phase = LAUNCH
       /\ days > st.days_in_launch_phase
       /\ review_count > st.reviews_threshold_for_growth
      THEN [phase |-> GROWTH, price |-> 299, reason |-> "Launch phase complete"]
    ELSE IF st.current_phase = GROWTH /\ days > 30 /\ review_count > 50
      THEN [phase |-> MATURE, price |-> 399, reason |-> "Growth complete"]
    ELSE IF /\ st.current_phase = PROMO
            /\ st.last_promotion_date # NoDate
            /\ now - st.last_promotion_date[1] > 7
      THEN [phase |-> MATURE, price |-> 399, reason |-> "Promotional period ended"]
    ELSE [phase |-> st.current_phase, price |-> st.current_price_usd,
          reason |-> ""]

\* The transition conditions of auto_transition_pricing: the new phase, the
\* new price and the reason for the strategy st the sweep holds.
check_transition(st, days, review_count) ==
    IF /\ st.current_phase = LAUNCH
       /\ days >= st.days_in_launch_phase
       /\ review_count >= st.reviews_threshold_for_growth
      THEN [phase |-> GROWTH, price |-> 299, reason |-> "Launch phase complete"]
    ELSE IF st.current_phase = GROWTH /\ days >= 30 /\ review_count >= 50
      THEN [phase |-> MATURE, price |-> 399, reason |-> "Growth complete"]
    ELSE IF /\ st.current_phase = PROMO
            /\ st.last_promotion_date # NoDate
            /\ now - st.last_promotion_date[1] >= 7
      THEN [phase |-> MATURE, price |-> 399, reason |-> "Promotional period ended"]
    ELSE [phase |-> st.current_phase, price |-> st.current_price_usd,
          reason |-> ""]

\* auto_transition_pricing, first half: the queryset is evaluated; the sweep
\* holds the strategy with its Book and review tracker (select_related) if
\* the filter keeps it, and ends at once if not.
auto_transition_pricing_load(s) ==
    /\ sweeps[s].pc = "idle"
    /\ IF auto_price_strategies
         THEN sweeps' = [sweeps EXCEPT
                           ![s] = [pc |-> "loaded", strategy |-> strategy,
                                   book |-> book, review_count |-> total_reviews]]
         ELSE UNCHANGED sweeps
    /\ UNCHANGED <<projection, book, req, response, book_tasks, chapterVars,
                   now, total_reviews, strategy, preq>>

\* auto_transition_pricing, second half: the loop body for the strategy the
\* sweep holds.  On a change it assigns phase and price, log_price_change
\* appends and saves price_history, and strategy.save() writes every column
\* of the in-memory strategy.
auto_transition_pricing_apply(s) ==
    /\ sweeps[s].pc = "loaded"
    /\ LET st == sweeps[s].strategy
           new == check_transition(st, days_since_publish(sweeps[s].book),
                                   sweeps[s].review_count)
       IN IF new.phase # st.current_phase \/ new.price # st.current_price_usd
            THEN /\ Len(st.price_history) < MaxHistory
                 /\ strategy' =
                      log_price_change([st EXCEPT !.current_phase = new.phase,
                                                  !.current_price_usd = new.price],
                                       new.price, new.phase, new.reason)
            ELSE UNCHANGED strategy
    /\ sweeps' = [sweeps EXCEPT ![s] = Idle]
    /\ UNCHANGED <<projection, book, req, response, book_tasks, chapterVars,
                   now, total_reviews, preq>>

\* schedule_kindle_countdown: for a KDP Select strategy in MATURE with
\* auto-pricing on and a Book not soft-deleted, unless the last promotion
\* is less than days_between_promotions ago, the next promotion is set a
\* week ahead and saved with update_fields=['next_promotion_date',
\* 'next_promotion_type', 'updated_at'].
schedule_kindle_countdown ==
    /\ IF /\ strategy.is_kdp_select
          /\ strategy.current_phase = MATURE
          /\ strategy.auto_price_enabled
          /\ ~book.is_deleted
          /\ \/ strategy.last_promotion_date = NoDate
             \/ now - strategy.last_promotion_date[1]
                   >= strategy.days_between_promotions
         THEN strategy' = [strategy EXCEPT
                             !.next_promotion_date = <<now + 7>>,
                             !.next_promotion_type = KINDLE_COUNTDOWN]
         ELSE UNCHANGED strategy
    /\ UNCHANGED <<projection, book, req, response, book_tasks, chapterVars,
                   now, total_reviews, sweeps, preq>>

\* pricing_strategy_view, first half: get_or_create reads the strategy.
pricing_strategy_view_get ==
    /\ preq.pc = "idle"
    /\ preq' = [pc |-> "loaded", strategy |-> strategy]
    /\ UNCHANGED <<projection, book, req, response, book_tasks, chapterVars,
                   now, total_reviews, strategy, sweeps>>

\* The phases and the prices (in cents) an administrator posts.
PostedPhases == { LAUNCH, PROMO }

PostedPrices == { 99 }

\* pricing_strategy_view, second half of a POST: the posted phase, price and
\* auto-pricing switch are assigned to the in-memory strategy and
\* strategy.save() writes every column of it.
pricing_strategy_view_post(new_phase, new_price, auto_enabled) ==
    /\ preq.pc = "loaded"
    /\ strategy' = [preq.strategy EXCEPT !.current_phase = new_phase,
                                         !.current_price_usd = new_price,
                                         !.auto_price_enabled = auto_enabled]
    /\ preq' = Idle
    /\ UNCHANGED <<projection, book, req, response, book_tasks, chapterVars,
                   now, total_reviews, sweeps>>

\* ------------------------------------------------------------------------
\* Specifications
\* ------------------------------------------------------------------------

\* Lifecycle events only: every path that invokes a @transition method.
NextLifecycle ==
    \/ get_object
    \/ \E b \in BagToSet(req) : BookViewSet_start_keyword_research(b)
    \/ \E b \in BagToSet(req) : BookViewSet_approve_keywords(b)
    \/ \E b \in BagToSet(req) : BookViewSet_start_description_generation(b)
    \/ \E b \in BagToSet(req) : BookViewSet_approve_description(b)
    \/ \E b \in BagToSet(req) : BookViewSet_start_bible_generation(b)
    \/ \E b \in BagToSet(req) : BookViewSet_approve_bible(b)
    \/ \E b \in BagToSet(req) : BookViewSet_start_writing(b)
    \/ \E b \in BagToSet(req) : BookViewSet_submit_for_qa(b)
    \/ \E b \in BagToSet(req) : BookViewSet_approve_for_export(b)
    \/ \E b \in BagToSet(req) : BookViewSet_publish_to_kdp(b)
    \/ \E b \in BagToSet(req) : Book_return_to_writing(b)
    \/ \E b \in BagToSet(req) : Book_publish_to_all_platforms(b)
    \/ \E b \in BagToSet(req) : Book_archive(b)
    \/ \E b \in BagToSet(req) : keyword_research_view(b)
    \/ \E b \in BagToSet(req) : concept_selection_view(b)
    \/ \E b \in BagToSet(req) : story_bible_view(b)
    \/ \E b \in BagToSet(req), form \in KDPPreFlightForms : kdp_preflight_view(b, form)
    \/ run_book_task

\* The operations a caller outside the process can invoke that call a
\* lifecycle event of the Book: the lifecycle actions of BookViewSet and the
\* admin views, with the worker that consumes the units they enqueue.
NextApi ==
    \/ get_object
    \/ \E b \in BagToSet(req) : BookViewSet_start_keyword_research(b)
    \/ \E b \in BagToSet(req) : BookViewSet_approve_keywords(b)
    \/ \E b \in BagToSet(req) : BookViewSet_start_description_generation(b)
    \/ \E b \in BagToSet(req) : BookViewSet_approve_description(b)
    \/ \E b \in BagToSet(req) : BookViewSet_start_bible_generation(b)
    \/ \E b \in BagToSet(req) : BookViewSet_approve_bible(b)
    \/ \E b \in BagToSet(req) : BookViewSet_start_writing(b)
    \/ \E b \in BagToSet(req) : BookViewSet_submit_for_qa(b)
    \/ \E b \in BagToSet(req) : BookViewSet_approve_for_export(b)
    \/ \E b \in BagToSet(req) : BookViewSet_publish_to_kdp(b)
    \/ \E b \in BagToSet(req) : keyword_research_view(b)
    \/ \E b \in BagToSet(req) : concept_selection_view(b)
    \/ \E b \in BagToSet(req) : story_bible_view(b)
    \/ \E b \in BagToSet(req), form \in KDPPreFlightForms : kdp_preflight_view(b, form)
    \/ run_book_task

SpecApi == Init /\ [][NextApi]_vars

\* Every request path that writes the Book row.
Next ==
    \/ NextLifecycle
    \/ \E b \in BagToSet(req), status \in BookLifecycleStatus, preflight \in BOOLEAN :
           BookViewSet_update(b, status, preflight)

SpecLifecycle == Init /\ [][NextLifecycle]_vars

\* The same handlers on Books with passing and with failing stored scores.
SpecGate == InitGate /\ [][NextLifecycle]_vars

\* The Book has been moved to WRITING_IN_PROGRESS; its chapters are pending.
InitChapter ==
    /\ book = [NewBook(10, 1) EXCEPT !.lifecycle_status = WRITING_IN_PROGRESS]
    /\ req = EmptyBag
    /\ response = NoResponse
    /\ book_tasks = << >>
    /\ InitChapters
    /\ InitPricingIdle

\* The generation pipeline: the API actions of ChapterViewSet, the daily
\* sweep and the worker processes.
NextWriting ==
    \/ \E i \in ChapterIds : ChapterViewSet_approve(i)
    \/ \E i \in ChapterIds, notes \in Notes : ChapterViewSet_reject(i, notes)
    \/ \E i \in ChapterIds : ChapterViewSet_mark_ready_to_write(i)
    \/ run_daily_content_generation
    \/ \E w \in Workers : write_chapter_claim(w)
    \/ \E w \in Workers, content \in Contents : write_chapter_written(w, content)
    \/ \E w \in Workers : write_chapter_failed(w)
    \/ \E w \in Workers : rewrite_chapter_claim(w)
    \/ \E w \in Workers, content \in Contents : rewrite_chapter_written(w, content)
    \/ \E w \in Workers : rewrite_chapter_failed(w)

SpecWriting == InitChapter /\ [][NextWriting]_vars

\* The statuses the review specification sends in a PUT/PATCH body.
PatchStatuses == { READY_TO_WRITE, APPROVED, REJECTED }

\* The review specification runs the pipeline on one worker process.
ReviewWorkers == { 1 }

\* Every request path that writes a Chapter row, with the pipeline that
\* produces the chapters under review.
NextReview ==
    \/ \E i \in ChapterIds : ChapterViewSet_approve(i)
    \/ \E i \in ChapterIds, notes \in Notes : ChapterViewSet_reject(i, notes)
    \/ \E i \in ChapterIds : ChapterViewSet_mark_ready_to_write(i)
    \/ \E r \in Reviewers, i \in ChapterIds : chapter_get_object(r, i)
    \/ \E r \in Reviewers, form \in QAReviewForms : qa_review_view(r, form)
    \/ \E r \in Reviewers, status \in PatchStatuses, notes \in Notes :
          \E content \in PatchContents :
              ChapterViewSet_update(r, status, notes, content)
    \/ run_daily_content_generation
    \/ \E w \in ReviewWorkers : write_chapter_claim(w)
    \/ \E w \in ReviewWorkers, content \in Contents : write_chapter_written(w, content)
    \/ \E w \in ReviewWorkers : write_chapter_failed(w)
    \/ \E w \in ReviewWorkers : rewrite_chapter_claim(w)
    \/ \E w \in ReviewWorkers, content \in Contents : rewrite_chapter_written(w, content)
    \/ \E w \in ReviewWorkers : rewrite_chapter_failed(w)

SpecReview == InitChapter /\ [][NextReview]_vars

\* Generation with one worker: chapters are made ready or approved through
\* the API, the sweep dispatches them and the worker executes write_chapter,
\* which the provider lets succeed or fail.
NextGeneration ==
    \/ \E i \in ChapterIds : ChapterViewSet_approve(i)
    \/ \E i \in ChapterIds : ChapterViewSet_mark_ready_to_write(i)
    \/ run_daily_content_generation
    \/ \E w \in ReviewWorkers : write_chapter_claim(w)
    \/ \E w \in ReviewWorkers, content \in Contents : write_chapter_written(w, content)
    \/ \E w \in ReviewWorkers : write_chapter_failed(w)

SpecGeneration == InitChapter /\ [][NextGeneration]_vars

\* result["content"].strip() of AIWriterService: a text, or the empty string
\* when the provider's output is blank.
StrippedContents == { << >> } \cup Contents

\* Writing, review and rewriting of a chapter on one worker: the chapter is
\* made ready through the API, written by the pipeline, rejected through the
\* API or the admin QA review, and rewritten.
NextRewrite ==
    \/ \E i \in ChapterIds : ChapterViewSet_mark_ready_to_write(i)
    \/ \E i \in ChapterIds, notes \in Notes : ChapterViewSet_reject(i, notes)
    \/ \E r \in Reviewers, i \in ChapterIds : chapter_get_object(r, i)
    \/ \E r \in Reviewers, form \in QAReviewForms : qa_review_view(r, form)
    \/ run_daily_content_generation
    \/ \E w \in ReviewWorkers : write_chapter_claim(w)
    \/ \E w \in ReviewWorkers, content \in StrippedContents :
          write_chapter_written(w, content)
    \/ \E w \in ReviewWorkers : write_chapter_failed(w)
    \/ \E w \in ReviewWorkers : rewrite_chapter_claim(w)
    \/ \E w \in ReviewWorkers, content \in StrippedContents :
          rewrite_chapter_written(w, content)
    \/ \E w \in ReviewWorkers : rewrite_chapter_failed(w)

SpecRewrite == InitChapter /\ [][NextRewrite]_vars

\* The Book-level units executed by one worker next to the operations that
\* enqueue them and move the Book on.
NextBookTasks ==
    \/ get_object
    \/ \E b \in BagToSet(req) : generate_concepts_view(b)
    \/ \E b \in BagToSet(req) : concept_selection_view(b)
    \/ \E b \in BagToSet(req) : BookViewSet_start_keyword_research(b)
    \/ \E b \in BagToSet(req) : BookViewSet_approve_keywords(b)
    \/ \E b \in BagToSet(req) : BookViewSet_start_description_generation(b)
    \/ \E b \in BagToSet(req) : BookViewSet_approve_description(b)
    \/ \E b \in BagToSet(req) : BookViewSet_start_bible_generation(b)
    \/ \E w \in ReviewWorkers : book_task_start(w)
    \/ \E w \in ReviewWorkers : book_task_finish(w)

SpecBookTasks == Init /\ [][NextBookTasks]_vars

\* The chapter pipeline on one worker while the Book is approved for export
\* through the API.
NextFreeze ==
    \/ get_object
    \/ \E b \in BagToSet(req) : BookViewSet_approve_for_export(b)
    \/ \E i \in ChapterIds : ChapterViewSet_mark_ready_to_write(i)
    \/ \E i \in ChapterIds, notes \in Notes : ChapterViewSet_reject(i, notes)
    \/ run_daily_content_generation
    \/ \E w \in ReviewWorkers : write_chapter_claim(w)
    \/ \E w \in ReviewWorkers, content \in Contents : write_chapter_written(w, content)
    \/ \E w \in ReviewWorkers : rewrite_chapter_claim(w)
    \/ \E w \in ReviewWorkers, content \in Contents : rewrite_chapter_written(w, content)

SpecFreeze == InitChapter /\ [][NextFreeze]_vars

\* The chapter operations on one worker (the API actions, the sweep, the
\* write and rewrite units the provider lets succeed) next to
\* Book.update_word_count.
NextWordCount ==
    \/ \E i \in ChapterIds : ChapterViewSet_approve(i)
    \/ \E i \in ChapterIds, notes \in Notes : ChapterViewSet_reject(i, notes)
    \/ \E i \in ChapterIds : ChapterViewSet_mark_ready_to_write(i)
    \/ run_daily_content_generation
    \/ \E w \in ReviewWorkers : write_chapter_claim(w)
    \/ \E w \in ReviewWorkers, content \in Contents : write_chapter_written(w, content)
    \/ \E w \in ReviewWorkers : rewrite_chapter_claim(w)
    \/ \E w \in ReviewWorkers, content \in Contents : rewrite_chapter_written(w, content)
    \/ Book_update_word_count

SpecWordCount == InitChapter /\ [][NextWordCount]_vars

\* "Triggered every 10 chapters that are written" (run_consistency_check)
ConsistencyEvery == 10

\* A Book being written with ConsistencyEvery chapters: all but the last one,
\* two or three are written and waiting for QA, the others are ready.
InitConsistency ==
    /\ InitPricingIdle
    /\ book = [NewBook(10, 1) EXCEPT !.lifecycle_status = WRITING_IN_PROGRESS]
    /\ req = EmptyBag
    /\ response = NoResponse
    /\ book_tasks = << >>
    /\ \E done \in (ConsistencyEvery - 3)..(ConsistencyEvery - 1) :
          chapters =
            [i \in 1..ConsistencyEvery |->
                IF i <= done
                  THEN Chapter_save(mark_written(NewChapter, <<"w", " ", "w">>, "llm"))
                  ELSE mark_ready_to_write(NewChapter)]
    /\ creq = [r \in Reviewers |-> Idle]
    /\ content_queue = << >>
    /\ workers = [w \in Workers |-> Idle]

\* The sweep of the scheduler and one worker executing write_chapter.
NextConsistency ==
    \/ beat_run_daily_content_generation
    \/ \E w \in ReviewWorkers : write_chapter_claim(w)
    \/ \E w \in ReviewWorkers, content \in Contents : write_chapter_written(w, content)
    \/ \E w \in ReviewWorkers : write_chapter_failed(w)

SpecConsistency == InitConsistency /\ [][NextConsistency]_vars

\* The chapter endpoints of the API while time passes.
NextEndpoints ==
    \/ \E i \in ChapterIds : ChapterViewSet_approve(i)
    \/ \E i \in ChapterIds, notes \in Notes : ChapterViewSet_reject(i, notes)
    \/ \E i \in ChapterIds : ChapterViewSet_mark_ready_to_write(i)
    \/ tick

SpecEndpoints == InitChapter /\ [][NextEndpoints]_vars

\* The Books a pricing strategy belongs to: published, published and
\* soft-deleted, and not yet published.
PricingBooks ==
    { [NewBook(10, 1) EXCEPT !.lifecycle_status = PUBLISHED_KDP,
                             !.kdp_preflight_passed = TRUE,
                             !.published_at = TRUE],
      [NewBook(10, 1) EXCEPT !.lifecycle_status = PUBLISHED_KDP,
                             !.kdp_preflight_passed = TRUE,
                             !.published_at = TRUE,
                             !.is_deleted = TRUE],
      [NewBook(10, 1) EXCEPT !.lifecycle_status = WRITING_IN_PROGRESS] }

\* The price an administrator gives a strategy put in a phase, in cents
\* (PricingPhase.CHOICES).
PhasePrice(phase) ==
    CASE phase = LAUNCH -> 99
      [] phase = GROWTH -> 299
      [] phase = MATURE -> 399
      [] phase = PROMO -> 99
      [] phase = BUNDLE -> 399

\* The history of a strategy: empty, or with the entry of the launch.
Histories ==
    { << >>,
      << [date |-> 0, price |-> 99, phase |-> LAUNCH, reason |-> "Initial launch"] >> }

\* <<days_in_launch_phase, reviews_threshold_for_growth>>: the defaults, and
\* a longer launch.
LaunchRules == { <<7, 20>>, <<30, 20>> }

\* A price an administrator set by hand, in cents.
ManualPrice == 499

\* The strategies the sweeps find.
PricingStrategies ==
    { [NewStrategy EXCEPT !.current_phase = phase,
                          !.current_price_usd =
                              IF manual THEN ManualPrice ELSE PhasePrice(phase),
                          !.days_in_launch_phase = rule[1],
                          !.reviews_threshold_for_growth = rule[2],
                          !.last_promotion_date = last,
                          !.auto_price_enabled = auto,
                          !.price_history = history] :
        phase \in PricingPhase, manual \in BOOLEAN,
        rule \in LaunchRules, last \in { NoDate, <<0>> },
        auto \in BOOLEAN, history \in Histories }

InitPricing ==
    /\ book \in PricingBooks
    /\ req = EmptyBag
    /\ response = NoResponse
    /\ book_tasks = << >>
    /\ InitChapters
    /\ projection = 0
    /\ now = 0
    /\ total_reviews \in ReviewCounts
    /\ strategy \in PricingStrategies
    /\ sweeps = [s \in Sweepers |-> Idle]
    /\ preq = Idle

\* The worker that runs the scheduled sweeps one after the other.
BeatSweeper == { 1 }

\* The daily and the weekly sweep, one at a time, while days pass and
\* reviews come in.
NextSweeps ==
    \/ \E s \in BeatSweeper : auto_transition_pricing_load(s)
    \/ \E s \in BeatSweeper : auto_transition_pricing_apply(s)
    \/ schedule_kindle_countdown
    \/ tick
    \/ review_tracker_update

SpecSweeps == InitPricing /\ [][NextSweeps]_vars

\* The same sweeps under the scheduler: days keep passing while Days lasts,
\* and the beat schedule starts the daily sweep again and again, each sweep
\* running to its end.
SpecSweepsDaily ==
    /\ SpecSweeps
    /\ WF_vars(tick)
    /\ \A s \in BeatSweeper :
          /\ WF_vars(auto_transition_pricing_load(s))
          /\ WF_vars(auto_transition_pricing_apply(s))

\* A Book published thirty days ago with fifty reviews, whose strategy was
\* just created.
InitPublished ==
    /\ book = [NewBook(10, 1) EXCEPT !.lifecycle_status = PUBLISHED_KDP,
                                      !.kdp_preflight_passed = TRUE,
                                      !.published_at = TRUE]
    /\ req = EmptyBag
    /\ response = NoResponse
    /\ book_tasks = << >>
    /\ InitChapters
    /\ projection = 0
    /\ now = 30
    /\ total_reviews = 50
    /\ strategy = NewStrategy
    /\ sweeps = [s \in Sweepers |-> Idle]
    /\ preq = Idle

\* Sweeps on every pricing worker and the pricing view of the admin site at
\* the same time.
NextPricing ==
    \/ \E s \in Sweepers : auto_transition_pricing_load(s)
    \/ \E s \in Sweepers : auto_transition_pricing_apply(s)
    \/ schedule_kindle_countdown
    \/ pricing_strategy_view_get
    \/ \E new_phase \in PostedPhases, new_price \in PostedPrices,
          auto_enabled \in BOOLEAN :
            pricing_strategy_view_post(new_phase, new_price, auto_enabled)

SpecPricing == InitPublished /\ [][NextPricing]_vars

\* The lowest target the validators of target_chapter_count accept.
MinTarget == 10

\* A Book with up to one chapter more than that target: the first approved
\* chapters written and approved, the next deleted of them soft-deleted, the
\* rest as created.
ProgressChapters(n, approved, deleted) ==
    [i \in 1..n |->
        IF i <= approved
          THEN [NewChapter EXCEPT !.status = APPROVED,
                                  !.content = <<"w", " ", "w">>,
                                  !.word_count = 2,
                                  !.qa_reviewed_at = TRUE,
                                  !.is_deleted = (i <= deleted)]
          ELSE NewChapter]

InitProgress ==
    /\ \E target \in { 0, MinTarget } :
          book = [NewBook(10, 1) EXCEPT !.lifecycle_status = WRITING_IN_PROGRESS,
                                        !.target_chapter_count = target]
    /\ req = EmptyBag
    /\ response = NoResponse
    /\ book_tasks = << >>
    /\ \E n \in 0..(MinTarget + 1) : \E approved \in 0..n : \E deleted \in 0..approved :
          chapters = ProgressChapters(n, approved, deleted)
    /\ creq = [r \in Reviewers |-> Idle]
    /\ content_queue = << >>
    /\ workers = [w \in Workers |-> Idle]
    /\ InitPricingIdle

NextProgress ==
    \/ BookDetailSerializer_get_chapter_completion
    \/ Book_update_word_count

SpecProgress == InitProgress /\ [][NextProgress]_vars

\* The sweep alone, over a Book with one chapter more than the cap: every
\* chapter is waiting, ready, or ready and soft-deleted; the Book is being
\* written, being written and soft-deleted, or already in QA review.
SweepChapterIds == 1..(DailyCap + 1)

SweepRows ==
    { NewChapter,
      [NewChapter EXCEPT !.status = READY_TO_WRITE],
      [NewChapter EXCEPT !.status = READY_TO_WRITE, !.is_deleted = TRUE] }

SweepBooks ==
    { [NewBook(10, 1) EXCEPT !.lifecycle_status = WRITING_IN_PROGRESS],
      [NewBook(10, 1) EXCEPT !.lifecycle_status = WRITING_IN_PROGRESS,
                             !.is_deleted = TRUE],
      [NewBook(10, 1) EXCEPT !.lifecycle_status = QA_REVIEW] }

InitSweep ==
    /\ book \in SweepBooks
    /\ req = EmptyBag
    /\ response = NoResponse
    /\ book_tasks = << >>
    /\ chapters \in [SweepChapterIds -> SweepRows]
    /\ creq = [r \in Reviewers |-> Idle]
    /\ content_queue = << >>
    /\ workers = [w \in Workers |-> Idle]
    /\ InitPricingIdle

NextSweep == beat_run_daily_content_generation

SpecSweep == InitSweep /\ [][NextSweep]_vars

Spec == Init /\ [][Next]_vars

\* ------------------------------------------------------------------------
\* Properties of the Book lifecycle
\* ------------------------------------------------------------------------

\* The enumerated edges of the transition table.
Edges ==
    UNION { { <<s, TransitionTarget(e)>> : s \in TransitionSources(e) } :
            e \in LifecycleEvents }

\* The in-memory Books of the requests in progress.
InFlight == BagToSet(req)

\* The step is a request that holds the in-memory Book b invoking lifecycle
\* event e (book.<e>(); book.save()).
Invokes(b, e) == LifecycleAction(b, e)

\* The quality gate on the Book's own stored scores.
ScoresBelowThresholds(b) ==
    /\ b.ai_detection_score < 20
    /\ b.plagiarism_score < 3

Exported == { EXPORT_READY, PUBLISHED_KDP, PUBLISHED_ALL, ARCHIVED }

\* C1: an event invoked while the persisted state is not one of its sources
\* is answered with an error and leaves the Book row unchanged; the
\* persisted lifecycle_status is always one of the 13 values and every
\* change of it is an enumerated edge.
C1_InvalidTransitionLeavesRowAndOnlyEdges ==
    [][ /\ book'.lifecycle_status \in BookLifecycleStatus
        /\ \A b \in InFlight, e \in LifecycleEvents :
             (Invokes(b, e) /\ book.lifecycle_status \notin TransitionSources(e))
                 => (book' = book /\ response' = "error")
        /\ (book'.lifecycle_status # book.lifecycle_status
                 => <<book.lifecycle_status, book'.lifecycle_status>> \in Edges)
      ]_vars

\* C2: approve_for_export (API action, or the pre-flight view's approve_qa)
\* on a Book in QA_REVIEW or WRITING_IN_PROGRESS whose stored scores are not
\* below the thresholds, or whose checklist is incomplete, is answered with
\* an error and leaves lifecycle_status and kdp_preflight_passed unchanged.
C2_GateFailureLeavesBook ==
    [][ \A b \in InFlight :
          LET Rejected == /\ response' = "error"
                          /\ book'.lifecycle_status = book.lifecycle_status
                          /\ book'.kdp_preflight_passed = book.kdp_preflight_passed
          IN /\ ( /\ BookViewSet_approve_for_export(b)
                  /\ b.lifecycle_status \in { QA_REVIEW, WRITING_IN_PROGRESS }
                  /\ ~ ScoresBelowThresholds(b) ) => Rejected
             /\ \A form \in KDPPreFlightForms :
                  ( /\ kdp_preflight_view(b, form)
                    /\ b.lifecycle_status \in { QA_REVIEW, WRITING_IN_PROGRESS }
                    /\ ~ (ScoresBelowThresholds(b) /\ form.checklist) )
                      => Rejected
      ]_vars

\* C3: the persisted Book enters EXPORT_READY only in a step in which its
\* own stored scores are below the thresholds and a complete checklist was
\* submitted, whatever path invoked the transition.
C3_NoPathBypassesGate ==
    [][ (book'.lifecycle_status = EXPORT_READY /\ book.lifecycle_status # EXPORT_READY)
           => /\ ScoresBelowThresholds(book')
              /\ \E b \in InFlight, form \in KDPPreFlightForms :
                    form.checklist /\ kdp_preflight_view(b, form)
      ]_vars

\* C4: of two callers that read the same persisted state, at most one
\* succeeds: a caller whose in-memory lifecycle_status is no longer the
\* persisted one (another caller committed in between) is rejected and
\* writes nothing.
C4_StaleCallerRejected ==
    [][ \A b \in InFlight, e \in LifecycleEvents :
          ( /\ Invokes(b, e)
            /\ b.lifecycle_status # book.lifecycle_status )
              => (response' = "error" /\ book' = book)
      ]_vars

\* C5: under every interleaving, each change of the persisted
\* lifecycle_status goes along an enumerated edge from the value persisted
\* immediately before it (a stale write never overwrites a committed state).
C5_PersistedChangesAreEdges ==
    [][ book'.lifecycle_status # book.lifecycle_status
           => <<book.lifecycle_status, book'.lifecycle_status>> \in Edges
      ]_vars

C7_ExportedImpliesPreflight ==
    /\ [](book.lifecycle_status \in Exported => book.kdp_preflight_passed)
    /\ [][ \A b \in InFlight :
             (Invokes(b, "approve_for_export") /\ response' = "success")
                => /\ book'.lifecycle_status = EXPORT_READY
                   /\ book'.kdp_preflight_passed
         ]_vars

\* The Book has been approved for export, published and archived.
C7_Witness ==
    /\ book.lifecycle_status = ARCHIVED
    /\ book.kdp_preflight_passed

\* C8: in every reachable state, whatever path approved it (Chapter.approve,
\* the API approve action, the admin QA review), a Chapter whose status is
\* APPROVED has qa_reviewed_at set.
C8_ApprovedImpliesReviewedAt ==
    \A i \in ChapterIds :
        chapters[i].status = APPROVED => chapters[i].qa_reviewed_at

\* C9: in every reachable state a Chapter whose status is REJECTED has
\* non-empty qa_notes; no path puts a chapter in REJECTED with empty notes.
C9_RejectedImpliesNotes ==
    \A i \in ChapterIds :
        chapters[i].status = REJECTED => chapters[i].qa_notes # ""

\* The workers that hold chapter i claimed and are generating content for it.
Generating(i) ==
    { w \in Workers : workers[w].pc = "generating" /\ workers[w].unit.chapter_id = i }

\* C10: the work claim is exclusive: under every interleaving of workers at
\* most one work unit at a time holds a given chapter in WRITING and is
\* generating content for it.
C10_ExclusiveClaim ==
    \A i \in ChapterIds : Cardinality(Generating(i)) <= 1

\* ------------------------------------------------------------------------
\* Properties of the generation pipeline
\* ------------------------------------------------------------------------

\* C11: a write_chapter unit that starts executing when its chapter is no
\* longer in READY_TO_WRITE (the chapter was written, approved or claimed in
\* the meantime) does not mutate the chapter: status, content, word_count
\* and generation_attempts stay as they are.
C11_UnitOutsidePreStateLeavesChapter ==
    [][ \A w \in Workers :
          ( /\ content_queue # << >>
            /\ chapters[Head(content_queue).chapter_id].status # READY_TO_WRITE
            /\ write_chapter_claim(w) )
              => chapters' = chapters
      ]_vars

\* The chapters of the Book the sweep is meant to consider.
ReadyToWrite ==
    { i \in DOMAIN chapters :
        chapters[i].status = READY_TO_WRITE /\ ~chapters[i].is_deleted }

\* The units one step appends to the queue.
Dispatched ==
    SubSeq(content_queue', Len(content_queue) + 1, Len(content_queue'))

UnitsInFlight ==
    Len(content_queue)
      + Cardinality({ w \in Workers : workers[w].pc = "generating" })

\* C13: at every moment the number of dispatched-but-not-completed units of
\* the Book in WRITING_IN_PROGRESS is at most the cap of 5, also when the
\* sweep runs again before the units of the previous run have executed.
C13_InFlightWithinCap ==
    book.lifecycle_status = WRITING_IN_PROGRESS => UnitsInFlight <= 5

\* Every unit that exists: queued, or held by a worker.
AllUnits ==
    { content_queue[k] : k \in DOMAIN content_queue }
      \cup { workers[w].unit : w \in { x \in Workers : workers[x].pc = "generating" } }

\* C14: retries of a generation unit are bounded: no unit is ever on its
\* fourth retry, every retry is scheduled with the fixed delay of 60 seconds,
\* and a unit that fails on its third retry is not queued again.
C14_RetriesBounded ==
    [][ /\ \A u \in AllUnits' :
             /\ u.retries <= 3
             /\ u.retries > 0 => u.countdown = 60
        /\ \A w \in Workers :
             ( /\ workers[w].pc = "generating"
               /\ workers[w].unit.retries >= 3
               /\ write_chapter_failed(w) ) => content_queue' = content_queue
      ]_vars

\* A unit is running on its third retry.
C14_Witness ==
    \E w \in Workers :
        /\ workers[w].pc = "generating"
        /\ workers[w].unit.retries = 3

\* C15: no chapter is left in WRITING without a unit for it: whenever a
\* chapter has status WRITING, some unit for that chapter is queued (also for
\* a retry) or held by a worker.
C15_WritingHasUnit ==
    \A i \in DOMAIN chapters :
        chapters[i].status = WRITING =>
            \E u \in AllUnits : u.chapter_id = i

\* C16 as stated: a call of mark_ready_to_write on a chapter already in
\* READY_TO_WRITE raises no error and leaves every field of the chapter,
\* the status included, as it was after the first call.
C16_SecondCallLeavesEveryField ==
    [][ \A i \in ChapterIds :
          ( /\ chapters[i].status = READY_TO_WRITE
            /\ ChapterViewSet_mark_ready_to_write(i) )
              => /\ response' = "success"
                 /\ chapters'[i] = chapters[i]
      ]_vars

\* C16 amended: a call of mark_ready_to_write on a chapter already in
\* READY_TO_WRITE raises no error and leaves the status and every other
\* field except the updated_at timestamp as after the first call.
C16_SecondCallLeavesAllButTimestamp ==
    [][ \A i \in ChapterIds :
          ( /\ chapters[i].status = READY_TO_WRITE
            /\ ChapterViewSet_mark_ready_to_write(i) )
              => /\ response' = "success"
                 /\ chapters'[i] = [chapters[i] EXCEPT !.updated_at = now]
      ]_vars

\* The endpoint answered success for a chapter in READY_TO_WRITE on a later
\* day than the Book's first.
C16_Witness ==
    \E i \in ChapterIds :
        /\ chapters[i].status = READY_TO_WRITE
        /\ chapters[i].updated_at > 0
        /\ response = "success"

\* ------------------------------------------------------------------------
\* Properties of the pricing phases
\* ------------------------------------------------------------------------

\* C17: once the strategy is in MATURE, no sequence of daily pricing sweeps
\* and weekly promotion sweeps run one after the other, whatever the elapsed
\* days and the review count, puts it in LAUNCH or GROWTH.
C17_MatureNeverBackToLaunchOrGrowth ==
    [][ strategy.current_phase = MATURE
          => strategy'.current_phase \notin { LAUNCH, GROWTH } ]_vars

\* The weekly sweep has scheduled a promotion for the strategy in MATURE and
\* a daily sweep holds it.
C17_Witness ==
    /\ strategy.current_phase = MATURE
    /\ strategy.next_promotion_date # NoDate
    /\ \E s \in Sweepers :
          /\ sweeps[s].pc = "loaded"
          /\ sweeps[s].strategy.current_phase = MATURE

\* The phase table of the daily sweep, for a strategy in phase with the
\* given launch rule, days since publication, reviews, and days in promotion
\* (NoDate when the strategy has no promotion date).
PhaseTable(phase, launch_days, growth_reviews, days, reviews, promo_days) ==
    CASE phase = LAUNCH ->
           IF days >= launch_days /\ reviews >= growth_reviews
             THEN GROWTH ELSE LAUNCH
      [] phase = GROWTH ->
           IF days >= 30 /\ reviews >= 50 THEN MATURE ELSE GROWTH
      [] phase = PROMO ->
           IF promo_days # NoDate /\ promo_days[1] >= 7 THEN MATURE ELSE PROMO
      [] OTHER -> phase

\* C18: for a strategy the daily sweep holds, the sweep changes the phase
\* exactly as the table says: LAUNCH to GROWTH iff days_since_publish >=
\* days_in_launch_phase and review_count >= reviews_threshold_for_growth,
\* GROWTH to MATURE iff days_since_publish >= 30 and review_count >= 50,
\* PROMO to MATURE iff days_in_promo >= 7, and no change otherwise (MATURE
\* and BUNDLE included); one sweep advances the strategy by one phase at most.
C18_SweepFollowsPhaseTable ==
    [][ \A s \in Sweepers :
          auto_transition_pricing_apply(s) =>
            strategy'.current_phase =
              PhaseTable(strategy.current_phase,
                         strategy.days_in_launch_phase,
                         strategy.reviews_threshold_for_growth,
                         IF book.published_at THEN now ELSE 0,
                         sweeps[s].review_count,
                         IF strategy.last_promotion_date = NoDate THEN NoDate
                         ELSE <<now - strategy.last_promotion_date[1]>>)
      ]_vars

\* A sweep moved the strategy from LAUNCH to GROWTH on a day on which the
\* conditions of GROWTH to MATURE hold as well.
C18_Witness ==
    /\ strategy.current_phase = GROWTH
    /\ strategy.price_history # << >>
    /\ LET last == strategy.price_history[Len(strategy.price_history)]
       IN last.date = now /\ last.phase = GROWTH
    /\ now >= 30
    /\ total_reviews >= 50

\* C19: every phase transition a pricing sweep performs appends exactly one
\* entry with date, price, phase and reason to price_history, whose phase
\* and price are the new current_phase and current_price; the earlier
\* entries stay identical and in the same order.
C19_TransitionAppendsOneEntry ==
    [][ \A s \in Sweepers :
          ( /\ auto_transition_pricing_apply(s)
            /\ strategy'.current_phase # strategy.current_phase )
              => LET old == strategy.price_history
                     new == strategy'.price_history
                 IN /\ Len(new) = Len(old) + 1
                    /\ SubSeq(new, 1, Len(old)) = old
                    /\ DOMAIN new[Len(new)] = { "date", "price", "phase", "reason" }
                    /\ new[Len(new)].phase = strategy'.current_phase
                    /\ new[Len(new)].price = strategy'.current_price_usd
      ]_vars

\* A sweep has added an entry to a history that had one already.
C19_Witness ==
    /\ Len(strategy.price_history) >= 2
    /\ LET last == strategy.price_history[Len(strategy.price_history)]
       IN /\ last.phase = strategy.current_phase
          /\ last.price = strategy.current_price_usd
          /\ last.reason # "Initial launch"

\* p is a prefix of q
IsPrefix(p, q) == Len(p) <= Len(q) /\ SubSeq(q, 1, Len(p)) = p

\* C20: price_history is append-only in the persisted row: under every
\* interleaving of pricing sweeps and saves of the pricing view, each value
\* of the persisted price_history has the previous one as a prefix.
C20_HistoryAppendOnly ==
    [][ IsPrefix(strategy.price_history, strategy'.price_history) ]_vars

\* C21: outside promotions the price never decreases: a transition of the
\* daily sweep from LAUNCH to GROWTH or from GROWTH to MATURE, from any
\* starting price, leaves current_price_usd at least as high as it was.
C21_PriceNeverDecreasesOutsidePromo ==
    [][ \A s \in Sweepers :
          ( /\ auto_transition_pricing_apply(s)
            /\ strategy.current_phase \in { LAUNCH, GROWTH }
            /\ strategy'.current_phase # strategy.current_phase )
              => strategy'.current_price_usd >= strategy.current_price_usd
      ]_vars

\* ------------------------------------------------------------------------
\* Properties of the exposed lifecycle operations
\* ------------------------------------------------------------------------

\* C24: each of the 13 lifecycle events is available as an operation an
\* external caller can invoke: whenever a request holds a Book on which the
\* event can proceed, some exposed operation takes the step that invokes
\* the event on it (so every lifecycle state is reachable from
\* CONCEPT_PENDING through the exposed operations), and its response is the
\* resulting state or a rejection.
C24_EveryEventExposed ==
    \A b \in InFlight : \A e \in LifecycleEvents :
        can_proceed(b, e) =>
            ENABLED ( /\ NextApi
                      /\ Invokes(b, e)
                      /\ response' \in { "success", "error" } )

\* The states the exposed lifecycle operations never reach.
UnreachedByApi ==
    book.lifecycle_status \notin { PUBLISHED_ALL, ARCHIVED }

\* ------------------------------------------------------------------------
\* Properties of the consistency check
\* ------------------------------------------------------------------------

\* Chapter.objects.filter(book=book, status__in=['written', 'pending_qa'],
\* is_deleted=False).count() over the rows chs: the chapters written.
WrittenCount(chs) ==
    Cardinality({ i \in DOMAIN chs : /\ chs[i].status \in { WRITTEN, PENDING_QA }
                                      /\ ~chs[i].is_deleted })

\* C25: whenever the count of chapters written for the Book reaches a
\* multiple of 10, a consistency-check work unit for the Book is dispatched;
\* no transition of the Book or of a chapter waits for it or is changed by
\* it.
C25_TenthChapterDispatchesCheck ==
    [][ ( /\ WrittenCount(chapters') > WrittenCount(chapters)
          /\ WrittenCount(chapters') % ConsistencyEvery = 0 )
        => \E k \in DOMAIN content_queue' :
              content_queue'[k].task = "run_consistency_check"
      ]_vars

\* ------------------------------------------------------------------------
\* Properties of the Chapter methods
\* ------------------------------------------------------------------------

\* C26: Chapter.status only changes along the specified edges:
\* mark_ready_to_write changes it only from PENDING, mark_written only from
\* WRITING, approve only from PENDING_QA or WRITTEN; invoked on a chapter in
\* any other state each of them leaves the chapter as it was.
C26_StatusChangesAlongEdges ==
    [][ /\ \A i \in ChapterIds :
              /\ ( /\ ChapterViewSet_mark_ready_to_write(i)
                    /\ chapters[i].status # PENDING )
                  => chapters'[i] = chapters[i]
              /\ ( /\ ChapterViewSet_approve(i)
                    /\ chapters[i].status \notin { PENDING_QA, WRITTEN } )
                  => chapters'[i] = chapters[i]
        /\ \A w \in ReviewWorkers : \A content \in Contents :
              ( /\ write_chapter_written(w, content)
                /\ chapters[workers[w].unit.chapter_id].status # WRITING )
              => chapters' = chapters
      ]_vars

\* The step is worker w completing a generation with content: the
\* mark_written of write_chapter or of rewrite_chapter.
MarkWritten(w, content) ==
    \/ write_chapter_written(w, content)
    \/ rewrite_chapter_written(w, content)

\* C27: a successful mark_written(content, model, tokens, cost) on a chapter
\* in WRITING leaves status PENDING_QA, stores the content and the generation
\* metadata, sets word_count to the word count of the new content and
\* increases generation_attempts by exactly 1; a failed generation attempt
\* does not change generation_attempts.
C27_MarkWrittenStoresResult ==
    [][ \A w \in ReviewWorkers :
          /\ \A content \in StrippedContents :
                ( MarkWritten(w, content) /\ workers[w].chapter.status = WRITING ) =>
                    LET i == workers[w].unit.chapter_id IN
                    /\ chapters'[i].status = PENDING_QA
                    /\ chapters'[i].content = content
                    /\ chapters'[i].generation_model = "llm"
                    /\ chapters'[i].word_count = split_count(content, FALSE)
                    /\ chapters'[i].generation_attempts =
                          chapters[i].generation_attempts + 1
          /\ ( write_chapter_failed(w) \/ rewrite_chapter_failed(w) ) =>
                \A i \in ChapterIds :
                    chapters'[i].generation_attempts = chapters[i].generation_attempts
      ]_vars

\* The chapter i was rejected with notes by the step: it is REJECTED (which
\* the sweep does not select), the notes are stored, and exactly one rewrite
\* unit for it was appended to the queue.
Rejected(i, notes) ==
    /\ chapters'[i].status = REJECTED
    /\ chapters'[i].qa_notes = notes
    /\ content_queue' = Append(content_queue, RewriteUnit(i, notes))

\* C28: rejecting a chapter through any calling path (the reject action of
\* the API, the admin QA review) leaves it REJECTED with the reviewer's notes
\* stored and enqueues exactly one rewrite unit for it, so that it re-enters
\* WRITING only through that unit and the sweep does not pick it up.
C28_RejectQueuesOneRewrite ==
    [][ /\ \A i \in ChapterIds : \A notes \in Notes \ { "" } :
              ChapterViewSet_reject(i, notes) => Rejected(i, notes)
        /\ \A r \in Reviewers : \A form \in QAReviewForms :
              ( /\ qa_review_view(r, form)
                /\ form.decision = "reject"
                /\ QAReviewForm_is_valid(form) )
              => Rejected(creq[r].id, form.feedback)
      ]_vars

\* C29: the retry policy applies to rewrite units as to initial generation:
\* a provider failure during a rewrite whose retries are not used up puts
\* the unit back on the queue for another attempt (so that a rejected
\* chapter whose provider fails once and then succeeds reaches PENDING_QA
\* and does not remain in WRITING).
C29_RewriteFailureIsRetried ==
    [][ \A w \in ReviewWorkers :
          ( /\ rewrite_chapter_failed(w)
            /\ workers[w].unit.retries < max_retries )
          => \E k \in DOMAIN content_queue' :
                /\ content_queue'[k].task = "rewrite_chapter"
                /\ content_queue'[k].chapter_id = workers[w].unit.chapter_id
                /\ content_queue'[k].retries = workers[w].unit.retries + 1
      ]_vars

\* C30: after every save of a Chapter, word_count equals the number of
\* whitespace-separated words of its content; a chapter whose content is
\* empty has word_count 0, whatever word_count was before the save.
C30_WordCountFollowsContent ==
    [][ \A i \in ChapterIds :
          chapters'[i] # chapters[i] =>
              /\ chapters'[i].word_count = split_count(chapters'[i].content, FALSE)
              /\ chapters'[i].content = << >> => chapters'[i].word_count = 0
      ]_vars

\* ------------------------------------------------------------------------
\* Properties of the progress projections
\* ------------------------------------------------------------------------

\* The chapters of the Book with status APPROVED.
ApprovedCount ==
    Cardinality({ i \in DOMAIN chapters : chapters[i].status = APPROVED })

\* C22: chapter_completion_percentage is 0 when the Book has no APPROVED
\* chapter, exactly 100 whenever the number of APPROVED chapters is at least
\* target_chapter_count (also when it is greater), and always within 0..100
\* (the value is in tenths of a percent).
C22_CompletionWithinRange ==
    [][ BookDetailSerializer_get_chapter_completion =>
          LET value == projection'
          IN /\ ApprovedCount = 0 => value = 0
             /\ ApprovedCount >= book.target_chapter_count => value = 1000
             /\ value >= 0 /\ value <= 1000
      ]_vars

RECURSIVE WordTotal(_)
\* The sum of word_count over the chapters ids.
WordTotal(ids) ==
    IF ids = {} THEN 0
    ELSE LET i == CHOOSE x \in ids : TRUE
         IN chapters[i].word_count + WordTotal(ids \ {i})

C31_OnlyResyncChangesWordCount ==
    [][ book'.current_word_count # book.current_word_count
          => Book_update_word_count ]_vars

\* A chapter has been written and the Book's total does not include it.
C31_Witness ==
    /\ \E i \in ChapterIds : chapters[i].word_count > 0
    /\ book.current_word_count #
          WordTotal({ i \in DOMAIN chapters : ~chapters[i].is_deleted })

\* ------------------------------------------------------------------------
\* Properties of the dispatching lifecycle operations
\* ------------------------------------------------------------------------

\* The lifecycle events whose operation dispatches a work unit.
DispatchingEvents ==
    { "start_keyword_research", "start_description_generation",
      "start_bible_generation" }

\* The step is an exposed operation invoking the dispatching event e on the
\* in-memory Book b.
Dispatches(b, e) ==
    \/ LifecycleAction(b, e)
    \/ e = "start_keyword_research" /\ concept_selection_view(b)

\* C32: for a lifecycle event that dispatches work, the work unit is enqueued
\* only after the new lifecycle_status has been committed (a step that
\* enqueues the unit has stored the event's target state), and an event
\* that is rejected as an invalid transition enqueues no work unit.
C32_UnitOnlyAfterCommit ==
    [][ \A b \in InFlight : \A e \in DispatchingEvents :
          Dispatches(b, e) =>
              /\ book_tasks' # book_tasks =>
                    /\ book_tasks' = Append(book_tasks, EventTask(e))
                    /\ book'.lifecycle_status = TransitionTarget(e)
              /\ ~ can_proceed(b, e) => book_tasks' = book_tasks
      ]_vars

\* A dispatching event committed its state and enqueued its unit.
C32_Witness ==
    /\ response = "success"
    /\ book.lifecycle_status = KEYWORD_RESEARCH
    /\ book_tasks = << "run_keyword_research" >>

\* C33: whenever a lifecycle operation of the external interface reports an
\* error to its caller, the persisted lifecycle_status of the Book is the
\* same as before the call, also when the transition was valid and
\* enqueuing the follow-up work unit failed.
C33_ErrorLeavesStatus ==
    [][ \A b \in InFlight : \A e \in LifecycleEvents :
          ( Invokes(b, e) /\ response' = "error" )
          => book'.lifecycle_status = book.lifecycle_status
      ]_vars

\* ------------------------------------------------------------------------
\* Properties of the pricing sweep, continued
\* ------------------------------------------------------------------------

\* No transition condition of the strategy's current phase holds for the
\* sweep s on this day.
NoConditionHolds(s) ==
    PhaseTable(strategy.current_phase,
               strategy.days_in_launch_phase,
               strategy.reviews_threshold_for_growth,
               IF book.published_at THEN now ELSE 0,
               sweeps[s].review_count,
               IF strategy.last_promotion_date = NoDate THEN NoDate
               ELSE <<now - strategy.last_promotion_date[1]>>)
      = strategy.current_phase

\* C34: a daily pricing sweep leaves the strategy entirely unchanged
\* (current_phase, current_price and price_history with every other field)
\* when auto-pricing is disabled, when the Book is not published or is
\* soft-deleted, or when no transition condition of the current phase
\* holds; a sweep that makes no transition appends no price_history entry.
C34_SweepWithoutTransitionLeavesStrategy ==
    [][ \A s \in Sweepers :
          /\ ( /\ ( auto_transition_pricing_load(s) \/ auto_transition_pricing_apply(s) )
                /\ \/ ~ strategy.auto_price_enabled
                   \/ book.lifecycle_status \notin { PUBLISHED_KDP, PUBLISHED_ALL }
                   \/ book.is_deleted )
              => /\ strategy' = strategy
                 /\ sweeps'[s] = Idle
          /\ ( auto_transition_pricing_apply(s) /\ NoConditionHolds(s) )
              => strategy' = strategy
          /\ ( /\ auto_transition_pricing_apply(s)
                /\ strategy'.current_phase = strategy.current_phase
                /\ strategy'.current_price_usd = strategy.current_price_usd )
              => strategy'.price_history = strategy.price_history
      ]_vars

\* The sweep holds a LAUNCH strategy after its launch days without the
\* reviews for GROWTH: it makes no transition.
C34_Witness ==
    \E s \in Sweepers :
        /\ sweeps[s].pc = "loaded"
        /\ strategy.current_phase = LAUNCH
        /\ now >= strategy.days_in_launch_phase
        /\ sweeps[s].review_count < strategy.reviews_threshold_for_growth
        /\ NoConditionHolds(s)

\* C35: under repeated daily sweeps, every strategy in PROMO that the sweep
\* processes eventually returns to MATURE once 7 days in promotion have
\* elapsed, also a strategy whose last_promotion_date was never set.
C35_PromoEventuallyMature ==
    ( /\ strategy.current_phase = PROMO
      /\ auto_price_strategies )
    ~> ( strategy.current_phase = MATURE )

\* ------------------------------------------------------------------------
\* Properties of the Book-level work units
\* ------------------------------------------------------------------------

\* C36: a Book-level work unit (concept generation, keyword research,
\* description generation, story-bible generation) never changes
\* Book.lifecycle_status, also when it ends while or after a lifecycle
\* transition was committed on the same Book: the committed state is still
\* in effect after the unit's write.
C36_UnitsLeaveLifecycleStatus ==
    [][ \A w \in ReviewWorkers :
          ( book_task_start(w) \/ book_task_finish(w) )
          => book'.lifecycle_status = book.lifecycle_status
      ]_vars

\* A transition was committed while a unit was running: the Book the unit
\* read is in an earlier state than the stored one, and the unit's write is
\* still to come.
C36_Witness ==
    \E w \in ReviewWorkers :
        /\ workers[w].pc = "running"
        /\ workers[w].book.lifecycle_status # book.lifecycle_status

\* ------------------------------------------------------------------------
\* Properties of the direction of the lifecycle
\* ------------------------------------------------------------------------

\* The lifecycle states in pipeline order.
Pipeline ==
    << CONCEPT_PENDING, KEYWORD_RESEARCH, KEYWORD_APPROVED,
       DESCRIPTION_GENERATION, DESCRIPTION_APPROVED, BIBLE_GENERATION,
       BIBLE_APPROVED, WRITING_IN_PROGRESS, QA_REVIEW, EXPORT_READY,
       PUBLISHED_KDP, PUBLISHED_ALL, ARCHIVED >>

\* The position of a lifecycle state in the pipeline.
Stage(status) == CHOOSE k \in DOMAIN Pipeline : Pipeline[k] = status

\* C37: through the lifecycle events, a Book that has reached EXPORT_READY
\* never returns to a pre-export state, a published Book never returns to
\* an unpublished state, ARCHIVED is absorbing, and the only backward edge
\* is return_to_writing from QA_REVIEW (to WRITING_IN_PROGRESS).
C37_NoWayBackPastExport ==
    [][ LET old == book.lifecycle_status
            new == book'.lifecycle_status
        IN /\ Stage(old) >= Stage(EXPORT_READY) => Stage(new) >= Stage(EXPORT_READY)
           /\ Stage(old) >= Stage(PUBLISHED_KDP) => Stage(new) >= Stage(PUBLISHED_KDP)
           /\ old = ARCHIVED => new = ARCHIVED
           /\ Stage(new) < Stage(old) =>
                 old = QA_REVIEW /\ new = WRITING_IN_PROGRESS
      ]_vars

\* ------------------------------------------------------------------------
\* Properties of chapters of a Book past the writing stages
\* ------------------------------------------------------------------------

\* The step is a step of a generation or rewrite unit on worker w.
UnitStep(w) ==
    \/ write_chapter_claim(w)
    \/ rewrite_chapter_claim(w)
    \/ \E content \in Contents :
          write_chapter_written(w, content) \/ rewrite_chapter_written(w, content)

\* C38: chapter content is frozen once the Book has left the writing
\* stages: no generation or rewrite unit (also one dispatched earlier and
\* executed late, or one scheduled by a reject) changes the content or the
\* status of a chapter while the Book is in EXPORT_READY, PUBLISHED_KDP,
\* PUBLISHED_ALL or ARCHIVED.
C38_ChaptersFrozenAfterWriting ==
    [][ \A w \in ReviewWorkers :
          ( /\ UnitStep(w)
            /\ book.lifecycle_status \in
                  { EXPORT_READY, PUBLISHED_KDP, PUBLISHED_ALL, ARCHIVED } )
          => \A i \in ChapterIds :
                /\ chapters'[i].status = chapters[i].status
                /\ chapters'[i].content = chapters[i].content
      ]_vars

\* ------------------------------------------------------------------------
\* Properties of generation_attempts
\* ------------------------------------------------------------------------

\* The step is the successful completion of a write or rewrite unit for
\* chapter i.
Completes(i) ==
    \E w \in Workers :
        /\ workers[w].pc = "generating"
        /\ workers[w].unit.chapter_id = i
        /\ \E content \in Contents :
              write_chapter_written(w, content) \/ rewrite_chapter_written(w, content)

\* C39: the persisted generation_attempts of a chapter never decreases and
\* always equals the number of generation units that completed successfully
\* for the chapter, under every interleaving of write and rewrite units on
\* it: it starts at 0, every successful completion adds exactly 1 to the
\* stored value and no other step changes it.
C39_AttemptsCountCompletions ==
    [][ \A i \in ChapterIds :
          LET old == chapters[i].generation_attempts
              new == chapters'[i].generation_attempts
          IN /\ new >= old
             /\ IF Completes(i) THEN new = old + 1 ELSE new = old
      ]_vars

====
